---- MODULE Spec2Model ----
(***************************************************************************)
(* A model of the Heatmap component of src/src/Heatmap.tsx: the layout     *)
(* computed by one render pass (alignedStart, totalDays, totalWeeks,       *)
(* maxCount, cells, monthLabels, the SVG dimensions and the rendered       *)
(* shapes), the hover state driven by onMouseEnter / onMouseLeave, and     *)
(* the colour utility getColorForCount / shadeColor.                       *)
(*                                                                         *)
(* A JavaScript Date is modelled by its local wall-clock reading           *)
(* [day, tod]: day is the local calendar day counted from 1970-01-01 and   *)
(* tod the hour of the day.  The environment's time zone is a fixed offset *)
(* tz (hours east of UTC); daylight saving transitions are not modelled.   *)
(* Numbers that JavaScript keeps as IEEE doubles are modelled exactly:     *)
(* the intensity is a rational <<num, den>>.  On the inputs drawn here the *)
(* double and the exact computation round to the same channel values.      *)
(***************************************************************************)
EXTENDS Integers, Sequences, FiniteSets, TLC

VARIABLES
    tz,            \* environment: offset of local time from UTC, in hours
    data,          \* props.data: ISO date key -> count
    startDate,     \* props.startDate
    endDate,       \* props.endDate
    baseColor,     \* props.baseColor
    cellSize,      \* props.cellSize
    cellSpacing,   \* props.cellSpacing
    weekStart,     \* props.weekStart
    rendered,      \* has the component function run
    alignedStart,  \* line 56
    totalDays,     \* line 60
    totalWeeks,    \* line 61
    maxCount,      \* line 66
    cells,         \* line 71
    monthLabels,   \* line 89
    svgWidth,      \* line 103
    svgHeight,     \* line 104
    shapes,        \* the <rect>/<circle> elements of lines 178-226
    hovered,       \* line 47: the useState cell
    lastEvent,     \* history: the most recent pointer event
    call,          \* a caller's arguments to the exported getColorForCount
    result         \* what that call returned

vars == <<tz, data, startDate, endDate, baseColor, cellSize, cellSpacing,
          weekStart, rendered, alignedStart, totalDays, totalWeeks, maxCount,
          cells, monthLabels, svgWidth, svgHeight, shapes, hovered, lastEvent,
          call, result>>

propVars == <<tz, data, startDate, endDate, baseColor, cellSize,
              cellSpacing, weekStart>>

layoutVars == <<rendered, alignedStart, totalDays, totalWeeks, maxCount, cells,
                monthLabels, svgWidth, svgHeight, shapes>>

----------------------------------------------------------------------------
(* Bounds of the model. *)

\* startDate ranges over BaseDay .. BaseDay + MaxStartOffset (all weekdays)
MaxStartOffset == 6
\* endDate is up to MaxSpan days after startDate ...
MaxSpan == 9
\* ... or up to MaxInverted days before it
MaxInverted == 8
\* a long range ends LongSpan .. LongSpan + MaxLongExtra days after startDate
LongSpan == 366
MaxLongExtra == 1
\* with pointer events, endDate is up to MaxHoverSpan days after startDate
MaxHoverSpan == 2
\* counts stored in data range over 0 .. MaxDataCount
MaxDataCount == 2
\* pointer coordinates range over 0 .. MaxCoord
MaxCoord == 1
\* getColorForCount is applied to counts -1 .. MaxCountArg
MaxCountArg == 6
\* ... and to maxCount 0 .. MaxMaxCountArg
MaxMaxCountArg == 4

----------------------------------------------------------------------------
(* Arithmetic of JavaScript numbers. *)

\* Math.max of two numbers
Max(a, b) == IF a >= b THEN a ELSE b

\* Math.min of two numbers
Min(a, b) == IF a <= b THEN a ELSE b

\* Math.abs
Abs(a) == IF a < 0 THEN -a ELSE a

\* The % operator: the remainder takes the sign of the dividend
JsRem(a, b) == IF a >= 0 THEN a % b ELSE -((-a) % b)

\* Math.floor(a / b) for b > 0
FloorDiv(a, b) == a \div b

\* Math.ceil(a / b) for b > 0
CeilDiv(a, b) == -((-a) \div b)

----------------------------------------------------------------------------
(* The Gregorian calendar behind Date. *)

\* Date's day number -> <<year, month, day>> (month 1..12)
CivilFromDays(z0) ==
    LET z   == z0 + 719468
        era == z \div 146097
        doe == z - era * 146097
        yoe == (doe - doe \div 1460 + doe \div 36524 - doe \div 146096) \div 365
        doy == doe - (365 * yoe + yoe \div 4 - yoe \div 100)
        mp  == (5 * doy + 2) \div 153
        d   == doy - (153 * mp + 2) \div 5 + 1
        m   == IF mp < 10 THEN mp + 3 ELSE mp - 9
        y   == yoe + era * 400 + (IF m <= 2 THEN 1 ELSE 0)
    IN  <<y, m, d>>

\* new Date(y, m - 1, d): <<year, month, day>> -> Date's day number
DaysFromCivil(y0, m, d) ==
    LET y   == IF m <= 2 THEN y0 - 1 ELSE y0
        era == y \div 400
        yoe == y - era * 400
        mp  == IF m > 2 THEN m - 3 ELSE m + 9
        doy == (153 * mp + 2) \div 5 + d - 1
        doe == yoe * 365 + yoe \div 4 - yoe \div 100 + doy
    IN  era * 146097 + doe - 719468

\* A Date: local calendar day and hour of the day
MkDate(d, h) == [day |-> d, tod |-> h]

\* Date.prototype.getDay(): 0 is Sunday; 1970-01-01 was a Thursday
getDay(date) == (date.day + 4) % 7

\* The relational operators on Dates compare the instants
DateLess(a, b) == a.day < b.day \/ (a.day = b.day /\ a.tod < b.tod)

\* date-fns compareLocalAsc: the sign of a - b
compareLocalAsc(a, b) ==
    IF DateLess(a, b) THEN -1 ELSE IF DateLess(b, a) THEN 1 ELSE 0

\* date-fns addDays: setDate(getDate() + amount), the wall-clock time is kept
addDays(date, amount) == [date EXCEPT !.day = @ + amount]

\* date-fns differenceInCalendarDays
differenceInCalendarDays(later, earlier) == later.day - earlier.day

\* date-fns differenceInDays: the number of full days, truncated towards zero
differenceInDays(later, earlier) ==
    LET sign       == compareLocalAsc(later, earlier)
        difference == Abs(differenceInCalendarDays(later, earlier))
        moved      == addDays(later, -(sign * difference))
        isLastDayNotFull ==
            IF compareLocalAsc(moved, earlier) = -sign THEN 1 ELSE 0
    IN  sign * (difference - isLastDayNotFull)

\* date.toISOString().slice(0, 10): the calendar date in UTC
IsoDateKey(date, zone) ==
    CivilFromDays((date.day * 24 + date.tod - zone) \div 24)

\* The short month names of toLocaleString / format "MMM"
MonthNames ==
    <<"Jan", "Feb", "Mar", "Apr", "May", "Jun",
      "Jul", "Aug", "Sep", "Oct", "Nov", "Dec">>

\* date.toLocaleString("default", {month: "short"}): the local month's name
MonthShort(date) == MonthNames[CivilFromDays(date.day)[2]]

\* data[key] || 0
Lookup(d, key) == IF key \in DOMAIN d /\ d[key] # 0 THEN d[key] ELSE 0

----------------------------------------------------------------------------
(* Strings and numbers of the colour utility.  A string is the sequence of *)
(* its characters; a number is [isNaN, v], v being 0 when isNaN.           *)

NaN == [isNaN |-> TRUE, v |-> 0]

Num(n) == [isNaN |-> FALSE, v |-> n]

\* String.prototype.substring(from, to) for 0 <= from <= to
substring(s, from, to) == SubSeq(s, Min(from, Len(s)) + 1, Min(to, Len(s)))

LowerHex == <<"0", "1", "2", "3", "4", "5", "6", "7", "8", "9",
              "a", "b", "c", "d", "e", "f">>

UpperHex == <<"0", "1", "2", "3", "4", "5", "6", "7", "8", "9",
              "A", "B", "C", "D", "E", "F">>

IsHexDigit(c) == \E k \in 1..16 : LowerHex[k] = c \/ UpperHex[k] = c

HexValue(c) == (CHOOSE k \in 1..16 : LowerHex[k] = c \/ UpperHex[k] = c) - 1

\* s without its leading white space
RECURSIVE TrimStart(_)
TrimStart(s) ==
    IF Len(s) > 0 /\ Head(s) = " " THEN TrimStart(Tail(s)) ELSE s

\* The value of the longest prefix of hex digits of s, continuing from acc
RECURSIVE HexPrefix(_, _)
HexPrefix(s, acc) ==
    IF Len(s) > 0 /\ IsHexDigit(Head(s))
    THEN HexPrefix(Tail(s), 16 * acc + HexValue(Head(s)))
    ELSE acc

\* parseInt(s, 16): white space, a sign and 0x are skipped, then the longest
\* prefix of hex digits is read; NaN when there is none
parseInt16(s) ==
    LET t      == TrimStart(s)
        signed == Len(t) > 0 /\ Head(t) \in {"+", "-"}
        sign   == IF signed /\ Head(t) = "-" THEN -1 ELSE 1
        u      == IF signed THEN Tail(t) ELSE t
        w      == IF Len(u) >= 2 /\ u[1] = "0" /\ u[2] \in {"x", "X"}
                  THEN Tail(Tail(u)) ELSE u
    IN  IF Len(w) > 0 /\ IsHexDigit(Head(w))
        THEN Num(sign * HexPrefix(w, 0))
        ELSE NaN

\* Math.round(n / d) for d > 0: halves round up
RoundDiv(n, d) == (2 * n + d) \div (2 * d)

\* a variant of line 242 without Math.min(..., 1)
IntensityUncapped(cnt, maxCnt) ==
    IF maxCnt = 0 THEN <<1, 1>>
    ELSE LET s == IF maxCnt < 0 THEN -1 ELSE 1
         IN  <<s * (35 * maxCnt + 90 * cnt), s * 100 * maxCnt>>

\* line 242: Math.min(0.35 + 0.9 * (count / maxCount), 1) as <<num, den>>
\* with den > 0; count / 0 is Infinity for the positive counts that get here
Intensity(cnt, maxCnt) ==
    IF maxCnt = 0 THEN <<1, 1>>
    ELSE LET s   == IF maxCnt < 0 THEN -1 ELSE 1
             num == s * (35 * maxCnt + 90 * cnt)
             den == s * 100 * maxCnt
         IN  IF num >= den THEN <<1, 1>> ELSE <<num, den>>

\* a variant of lines 252-253 that mixes towards white as intensity grows
mixTowardsWhite(channel, intensity) ==
    IF channel.isNaN THEN NaN
    ELSE Num(RoundDiv(channel.v * intensity[2]
                        + (255 - channel.v) * intensity[1],
                      intensity[2]))

\* lines 252-253: Math.round(255 - (255 - channel) * intensity)
mix(channel, intensity) ==
    IF channel.isNaN THEN NaN
    ELSE Num(RoundDiv(255 * intensity[2] - (255 - channel.v) * intensity[1],
                      intensity[2]))

\* A CSS colour: the literal text, or rgb(r, g, b) with its three numbers
Literal(text) == [css |-> text, channels |-> <<>>]

Rgb(r, g, b) == [css |-> "rgb", channels |-> <<r, g, b>>]

shadeColor(colour, intensity) ==
    LET r == parseInt16(substring(colour, 1, 3))
        g == parseInt16(substring(colour, 3, 5))
        b == parseInt16(substring(colour, 5, 7))
    IN  Rgb(mix(r, intensity), mix(g, intensity), mix(b, intensity))

\* a variant of line 240 that tests count < 0
getColorForCountStrict(cnt, base, maxCnt) ==
    IF cnt < 0 THEN Literal("#ebedf0")
    ELSE shadeColor(base, Intensity(cnt, maxCnt))

\* lines 235-245
getColorForCount(cnt, base, maxCnt) ==
    IF cnt <= 0 THEN Literal("#ebedf0")
    ELSE shadeColor(base, Intensity(cnt, maxCnt))

----------------------------------------------------------------------------
(* One render pass: the body of the component function, lines 56-104, and  *)
(* the cell elements of lines 178-226.                                     *)

\* a variant of lines 56-59 whose remainder may be negative: no "+ 7"
AlignedStartOfNoWrap(start, ws) ==
    addDays(start, -(JsRem(getDay(start) - ws, 7)))

\* lines 56-59
AlignedStartOf(start, ws) ==
    addDays(start, -(JsRem(getDay(start) - ws + 7, 7)))

\* line 60
TotalDaysOf(end, aligned) == differenceInDays(end, aligned) + 1

\* a variant of line 61 that rounds down
TotalWeeksOfFloor(days) == FloorDiv(days, 7)

\* line 61
TotalWeeksOf(days) == CeilDiv(days, 7)

\* Math.max over the values stored under keys, starting from acc
RECURSIVE MaxOver(_, _, _)
MaxOver(d, keys, acc) ==
    IF keys = {} THEN acc
    ELSE LET k == CHOOSE k \in keys : TRUE
         IN  MaxOver(d, keys \ {k}, Max(acc, d[k]))

\* a variant of line 66 without the floor of 1
MaxCountOfUnfloored(d) == MaxOver(d, DOMAIN d, 0)

\* line 66: Math.max(...Object.values(data), 1)
MaxCountOf(d) == MaxOver(d, DOMAIN d, 1)

\* lines 73-83: the cell pushed by iteration i of the loop
CellAt(i, aligned, d, zone, size, spacing) ==
    LET current   == addDays(aligned, i)
        weekIndex == FloorDiv(i, 7)
        dayIndex  == JsRem(i, 7)
    IN  [date  |-> current,
         count |-> Lookup(d, IsoDateKey(current, zone)),
         x     |-> weekIndex * (size + spacing),
         y     |-> dayIndex * (size + spacing)]

\* a variant of lines 71-84 whose loop runs while i <= totalDays
CellsOfInclusive(days, aligned, d, zone, size, spacing) ==
    [k \in 1..Max(days + 1, 0) |->
        CellAt(k - 1, aligned, d, zone, size, spacing)]

\* lines 71-84: the loop runs for i = 0 .. totalDays - 1
CellsOf(days, aligned, d, zone, size, spacing) ==
    [k \in 1..Max(days, 0) |-> CellAt(k - 1, aligned, d, zone, size, spacing)]

\* line 94: is this cell's month still to be labelled
IsNewMonth(seen, cell) == MonthShort(cell.date) \notin seen

\* lines 91-97: the cells from cell k on that pass both tests of the callback:
\* dated on or after startDate, and of a month not in seenMonths
Unlabelled(cs, k, start, seen) ==
    {j \in k..Len(cs) : ~DateLess(cs[j].date, start) /\ IsNewMonth(seen, cs[j])}

\* lines 89-98: cells.forEach from cell k on, with seenMonths = seen.  The
\* cells that return early or find their month seen change nothing, so the
\* scan moves straight to the next cell that pushes a label.
RECURSIVE MonthScan(_, _, _, _, _)
MonthScan(cs, k, start, seen, labels) ==
    LET todo == Unlabelled(cs, k, start, seen)
    IN  IF todo = {} THEN labels
        ELSE LET j == CHOOSE j \in todo : \A i \in todo : j <= i
             IN  MonthScan(cs, j + 1, start,
                           seen \cup {MonthShort(cs[j].date)},
                           Append(labels, [month |-> MonthShort(cs[j].date),
                                           x     |-> cs[j].x]))

MonthLabelsOf(cs, start) == MonthScan(cs, 1, start, {}, <<>>)

\* line 103
SvgWidthOf(weeks, size, spacing) == weeks * (size + spacing) + 50

\* line 104
SvgHeightOf(size, spacing) == 7 * (size + spacing) + 20

\* lines 182-185: the default tooltip, "<count> event(s) on <MMM dd>"
TooltipText(cell) ==
    [count |-> cell.count,
     noun  |-> IF cell.count # 1 THEN "events" ELSE "event",
     month |-> MonthShort(cell.date),
     day   |-> CivilFromDays(cell.date.day)[3]]

\* lines 178-225: the element of one cell.  A <rect> spans x .. x + width and
\* y .. y + height; a <circle> (cx = x + cellSize / 2, r = cellSize / 2) has
\* the same bounding box.
ShapeOf(cell, base, maxCnt, size) ==
    [x           |-> cell.x + 50,
     y           |-> cell.y + 20,
     width       |-> size,
     height      |-> size,
     fill        |-> getColorForCount(cell.count, base, maxCnt),
     tooltipText |-> TooltipText(cell)]

\* The component function runs
Render ==
    /\ ~rendered
    /\ rendered' = TRUE
    /\ alignedStart' = AlignedStartOf(startDate, weekStart)
    /\ totalDays' = TotalDaysOf(endDate, alignedStart')
    /\ totalWeeks' = TotalWeeksOf(totalDays')
    /\ maxCount' = MaxCountOf(data)
    /\ cells' = CellsOf(totalDays', alignedStart', data, tz, cellSize, cellSpacing)
    /\ monthLabels' = MonthLabelsOf(cells', startDate)
    /\ svgWidth' = SvgWidthOf(totalWeeks', cellSize, cellSpacing)
    /\ svgHeight' = SvgHeightOf(cellSize, cellSpacing)
    /\ shapes' = [k \in DOMAIN cells' |->
                    ShapeOf(cells'[k], baseColor, maxCount', cellSize)]
    /\ UNCHANGED <<propVars, hovered, lastEvent, call, result>>

----------------------------------------------------------------------------
(* The hover state, lines 47-51, 198-205 and 220-223.  null is <<>>.       *)

\* setHovered({x: e.clientX, y: e.clientY, text: tooltipText})
HoveredOnEnter(shape, clientX, clientY) ==
    <<[x |-> clientX, y |-> clientY, text |-> shape.tooltipText]>>

\* a variant of onMouseLeave that clears only the tooltip of the cell left
HoveredOnLeaveIfSame(prev, shape) ==
    IF prev # <<>> /\ prev[1].text = shape.tooltipText THEN <<>> ELSE prev

\* setHovered(null)
HoveredOnLeave(prev, shape) == <<>>

\* onMouseEnter of cell k with the pointer at (clientX, clientY)
MouseEnter(k, clientX, clientY) ==
    /\ rendered
    /\ k \in DOMAIN shapes
    /\ hovered' = HoveredOnEnter(shapes[k], clientX, clientY)
    /\ lastEvent' = [type |-> "enter", cell |-> k, x |-> clientX, y |-> clientY]
    /\ UNCHANGED <<propVars, layoutVars, call, result>>

\* onMouseLeave of cell k
MouseLeave(k) ==
    /\ rendered
    /\ k \in DOMAIN shapes
    /\ hovered' = HoveredOnLeave(hovered, shapes[k])
    /\ lastEvent' = [type |-> "leave", cell |-> k, x |-> 0, y |-> 0]
    /\ UNCHANGED <<propVars, layoutVars, call, result>>

----------------------------------------------------------------------------
(* A caller of the exported colour utility. *)

GetColor ==
    /\ result = <<>>
    /\ result' = <<getColorForCount(call.count, call.baseColor, call.maxCount)>>
    /\ UNCHANGED <<propVars, layoutVars, hovered, lastEvent, call>>

----------------------------------------------------------------------------
(* The inputs. *)

\* 2023-12-24, a Sunday: the ranges below cross a month and a year boundary
BaseDay == DaysFromCivil(2023, 12, 24)

\* hours of the day at which a prop Date may lie
TimesOfDay == {0, 12}

\* the environment's offsets from UTC, in hours
TimeZones == {-5, 0, 2}

\* the keys data may hold: a day of the ranges and a day far outside them
DataKeys == {<<2023, 12, 31>>, <<2022, 6, 15>>}

\* every data with keys among DataKeys and counts 0 .. MaxDataCount
DataSets ==
    UNION {[keys -> 0..MaxDataCount] : keys \in SUBSET DataKeys}

\* <<cellSize, cellSpacing>>: the defaults of lines 33-34 and degenerate ones
Sizes == {<<14, 4>>, <<1, 0>>, <<0, 0>>}

\* line 32: the default baseColor
DefaultBaseColor == <<"#", "2", "3", "9", "a", "3", "b">>

\* baseColor strings: well-formed ones, then malformed ones
BaseColors ==
    { DefaultBaseColor,
      <<"#", "0", "0", "0", "0", "0", "0">>,
      <<"#", "f", "f", "f", "f", "f", "f">>,
      <<"#", "F", "F", "8", "8", "0", "1">>,
      <<"2", "3", "9", "a", "3", "b">>,
      <<"#", "f", "8", "0">>,
      <<"#", "g", "g", "1", "0", "x", "2">>,
      <<"r", "e", "d">>,
      <<>> }

NoCall == [count |-> 0, baseColor |-> DefaultBaseColor, maxCount |-> 1]

NotRendered ==
    /\ rendered = FALSE
    /\ alignedStart = MkDate(0, 0)
    /\ totalDays = 0
    /\ totalWeeks = 0
    /\ maxCount = 0
    /\ cells = <<>>
    /\ monthLabels = <<>>
    /\ svgWidth = 0
    /\ svgHeight = 0
    /\ shapes = <<>>
    /\ hovered = <<>>
    /\ lastEvent = [type |-> "none", cell |-> 0, x |-> 0, y |-> 0]

\* startDate, endDate and weekStart of ranges of a few days, inverted ones
\* included
ShortRange ==
    /\ \E o \in 0..MaxStartOffset, h \in TimesOfDay :
          startDate = MkDate(BaseDay + o, h)
    /\ \E span \in (-MaxInverted)..MaxSpan, h \in TimesOfDay :
          endDate = MkDate(startDate.day + span, h)
    /\ weekStart \in {0, 1}

\* short ranges with every data and time zone, drawn at the default sizes
DataProps ==
    /\ ShortRange
    /\ tz \in TimeZones
    /\ data \in DataSets
    /\ baseColor = DefaultBaseColor
    /\ cellSize = 14
    /\ cellSpacing = 4

\* short ranges at every size
SizeProps ==
    /\ ShortRange
    /\ tz = 0
    /\ data = [k \in DataKeys |-> 1]
    /\ baseColor = DefaultBaseColor
    /\ \E sz \in Sizes : cellSize = sz[1] /\ cellSpacing = sz[2]

\* props of ranges longer than a year
LongProps ==
    /\ tz = 0
    /\ data = [k \in DataKeys |-> 1]
    /\ \E o \in 0..MaxStartOffset : startDate = MkDate(BaseDay + o, 0)
    /\ \E extra \in 0..MaxLongExtra :
          endDate = MkDate(startDate.day + LongSpan + extra, 0)
    /\ baseColor = DefaultBaseColor
    /\ cellSize = 14
    /\ cellSpacing = 4
    /\ weekStart \in {0, 1}

\* props of the instance that receives pointer events
HoverProps ==
    /\ tz = 0
    /\ data \in [{<<2023, 12, 31>>} -> 0..MaxDataCount]
    /\ \E o \in 0..MaxStartOffset : startDate = MkDate(BaseDay + o, 0)
    /\ \E span \in 0..MaxHoverSpan : endDate = MkDate(startDate.day + span, 0)
    /\ baseColor = DefaultBaseColor
    /\ cellSize = 14
    /\ cellSpacing = 4
    /\ weekStart \in {0, 1}

----------------------------------------------------------------------------
(* The specifications. *)

\* One instance and its pointer events
Init ==
    /\ HoverProps
    /\ NotRendered
    /\ call = NoCall
    /\ result = <<>>

Next ==
    \/ Render
    \/ \E k \in DOMAIN shapes, clientX \in 0..MaxCoord, clientY \in 0..MaxCoord :
          MouseEnter(k, clientX, clientY)
    \/ \E k \in DOMAIN shapes : MouseLeave(k)

Spec == Init /\ [][Next]_vars

\* The render pass over a wide set of props
InitLayout ==
    /\ DataProps \/ SizeProps \/ LongProps
    /\ NotRendered
    /\ call = NoCall
    /\ result = <<>>

NextLayout == Render

SpecLayout == InitLayout /\ [][NextLayout]_vars

\* Calls of getColorForCount
InitColor ==
    /\ tz = 0
    /\ data = <<>>
    /\ startDate = MkDate(BaseDay, 0)
    /\ endDate = MkDate(BaseDay, 0)
    /\ baseColor = DefaultBaseColor
    /\ cellSize = 14
    /\ cellSpacing = 4
    /\ weekStart = 0
    /\ NotRendered
    /\ call \in [count : (-1)..MaxCountArg, baseColor : BaseColors,
                 maxCount : (-1)..MaxMaxCountArg]
    /\ result = <<>>

NextColor == GetColor

SpecColor == InitColor /\ [][NextColor]_vars

----------------------------------------------------------------------------
(* Vocabulary of the properties. *)

\* startDate <= endDate
ValidRange == ~DateLess(endDate, startDate)

\* the distance between the offsets of neighbouring cells
Stride == cellSize + cellSpacing

\* <<year, month>> of a cell's local date
YearMonth(cell) ==
    <<CivilFromDays(cell.date.day)[1], CivilFromDays(cell.date.day)[2]>>

\* the cells dated on or after startDate
Visible == {i \in DOMAIN cells : ~DateLess(cells[i].date, startDate)}

\* the first visible cell of each calendar month
FirstOfMonth ==
    {i \in Visible :
        \A k \in Visible : k < i => YearMonth(cells[k]) # YearMonth(cells[i])}

\* the position of i among the members of S
Rank(S, i) == Cardinality({k \in S : k < i}) + 1

\* a #RRGGBB string
WellFormed(colour) ==
    /\ Len(colour) = 7
    /\ colour[1] = "#"
    /\ \A i \in 2..7 : IsHexDigit(colour[i])

\* the value of the two hex digits at 1-based places i and i + 1
ChannelAt(colour, i) == 16 * HexValue(colour[i]) + HexValue(colour[i + 1])

\* has the caller's getColorForCount returned
Returned == result # <<>>

----------------------------------------------------------------------------
(* The properties. *)

\* C1: for startDate <= endDate, monthLabels holds exactly one entry per
\* calendar month (year and month) that has a cell dated on or after
\* startDate, in chronological order, each with the month's name and the x
\* offset of the first such cell of the month.
C1_OneLabelPerCalendarMonth ==
    (rendered /\ ValidRange) =>
        /\ Len(monthLabels) = Cardinality(FirstOfMonth)
        /\ \A i \in FirstOfMonth :
              /\ Rank(FirstOfMonth, i) \in DOMAIN monthLabels
              /\ monthLabels[Rank(FirstOfMonth, i)] =
                    [month |-> MonthNames[YearMonth(cells[i])[2]],
                     x     |-> cells[i].x]

\* C2 as stated: an inverted range (endDate before startDate) yields no cell.
C2_InvertedRangeIsEmpty ==
    (rendered /\ DateLess(endDate, startDate)) => Len(cells) = 0

\* C2 as amended: when endDate lies at least one full day before alignedStart
\* (startDate moved back to the week start), the cell list is empty.
C2_EndBeforeAlignedStartIsEmpty ==
    (rendered /\ ~DateLess(addDays(alignedStart, -1), endDate)) =>
        Len(cells) = 0

C2_Witness ==
    /\ rendered
    /\ DateLess(endDate, startDate)
    /\ getDay(startDate) # weekStart
    /\ endDate = addDays(alignedStart, -1)
    /\ Len(cells) = 0

\* C3: hovered is null before any pointer event and after a leave; after an
\* enter it holds exactly the pointer coordinates of that event and the
\* tooltip text of the cell entered; it never holds more than one record.
C3_HoverIsLastEvent ==
    /\ Len(hovered) <= 1
    /\ lastEvent.type \in {"none", "leave"} => hovered = <<>>
    /\ lastEvent.type = "enter" =>
          hovered = <<[x    |-> lastEvent.x,
                       y    |-> lastEvent.y,
                       text |-> TooltipText(cells[lastEvent.cell])]>>

C3_Witness ==
    /\ lastEvent.type = "enter"
    /\ lastEvent.cell = 7
    /\ lastEvent.x = 1
    /\ hovered # <<>>
    /\ hovered[1].text.count = 1
    /\ hovered[1].text.noun = "event"
    /\ TooltipText(cells[1]) # hovered[1].text

\* C4: alignedStart is startDate moved back by
\* (getDay(startDate) - weekStart + 7) mod 7 days, which is 0 to 6 days; its
\* weekday is weekStart; the cell in row r has weekday (weekStart + r) mod 7.
C4_AlignedToWeekStart ==
    rendered =>
        /\ startDate.day - alignedStart.day \in 0..6
        /\ startDate.day - alignedStart.day =
              (getDay(startDate) - weekStart + 7) % 7
        /\ alignedStart.tod = startDate.tod
        /\ getDay(alignedStart) = weekStart
        /\ \A i \in DOMAIN cells : \E r \in 0..6 :
              /\ cells[i].y = r * Stride
              /\ r = (i - 1) % 7
              /\ getDay(cells[i].date) = (weekStart + r) % 7

C4_Witness ==
    /\ rendered
    /\ weekStart = 1
    /\ getDay(startDate) = 3
    /\ alignedStart = addDays(startDate, -2)
    /\ Len(cells) > 7

\* C5: for count >= maxCount > 0 and a well-formed baseColor the intensity is
\* 1 and every channel returned is the channel of baseColor.
C5_SaturatedAtMaxCount ==
    (/\ Returned
     /\ call.maxCount > 0
     /\ call.count >= call.maxCount
     /\ WellFormed(call.baseColor)) =>
        /\ Intensity(call.count, call.maxCount) = <<1, 1>>
        /\ result[1] = Rgb(Num(ChannelAt(call.baseColor, 2)),
                           Num(ChannelAt(call.baseColor, 4)),
                           Num(ChannelAt(call.baseColor, 6)))

C5_Witness ==
    /\ Returned
    /\ call.maxCount = 3
    /\ call.count = 3
    /\ call.baseColor = DefaultBaseColor
    /\ result[1].channels = <<Num(35), Num(154), Num(59)>>

\* C6: for count <= 0 the result is the literal #ebedf0, whatever baseColor
\* and maxCount are.
C6_NeutralForNoActivity ==
    (Returned /\ call.count <= 0) => result[1] = Literal("#ebedf0")

C6_Witness ==
    /\ Returned
    /\ call.count = 0
    /\ call.maxCount = 0
    /\ ~WellFormed(call.baseColor)
    /\ result[1].css = "#ebedf0"

\* C7: for maxCount >= 1, a well-formed baseColor and positive counts
\* c1 <= c2, every channel returned for c2 lies between the channel of
\* baseColor and the channel returned for c1, which is at most 255.
C7_MonotoneTowardsBase ==
    (/\ Returned
     /\ call.maxCount >= 1
     /\ call.count > 0
     /\ WellFormed(call.baseColor)) =>
        \A c2 \in call.count..(MaxCountArg + 1) : \A ch \in 1..3 :
            LET base == ChannelAt(call.baseColor, 2 * ch)
                out1 == result[1].channels[ch]
                out2 == getColorForCount(c2, call.baseColor,
                                         call.maxCount).channels[ch]
            IN  /\ ~out1.isNaN /\ ~out2.isNaN
                /\ base <= out2.v
                /\ out2.v <= out1.v
                /\ out1.v <= 255

C7_Witness ==
    /\ Returned
    /\ call.maxCount = 4
    /\ call.count = 1
    /\ call.baseColor = DefaultBaseColor
    /\ \A ch \in 1..3 :
          LET base == ChannelAt(call.baseColor, 2 * ch)
              out1 == result[1].channels[ch]
              out2 == getColorForCount(2, call.baseColor,
                                       call.maxCount).channels[ch]
          IN  base < out2.v /\ out2.v < out1.v /\ out1.v < 255

\* C8: maxCount is the largest value of data, or 1 when that is larger: it is
\* at least 1; with empty or all-zero data it is 1, every cell has count 0
\* and every cell is filled with the neutral colour.
C8_MaxCountFlooredAtOne ==
    rendered =>
        /\ maxCount >= 1
        /\ \A k \in DOMAIN data : maxCount >= data[k]
        /\ maxCount = 1 \/ \E k \in DOMAIN data : data[k] = maxCount
        /\ (\A k \in DOMAIN data : data[k] = 0) =>
              /\ maxCount = 1
              /\ Len(shapes) = Len(cells)
              /\ \A i \in DOMAIN cells :
                    /\ cells[i].count = 0
                    /\ shapes[i].fill = Literal("#ebedf0")

C8_Witness ==
    /\ rendered
    /\ DOMAIN data = DataKeys
    /\ \A k \in DOMAIN data : data[k] = 0
    /\ maxCount = 1
    /\ \E i \in DOMAIN cells : IsoDateKey(cells[i].date, tz) \in DOMAIN data
    /\ \A i \in DOMAIN shapes : shapes[i].fill.css = "#ebedf0"

\* C9: for startDate <= endDate the cell list holds one cell per calendar day
\* from alignedStart to endDate inclusive: cell i is dated alignedStart + i
\* days, its count is data's entry for that date or 0, its column is i div 7
\* and its row i mod 7, and the last cell is dated endDate.
C9_OneCellPerDay ==
    (rendered /\ ValidRange) =>
        /\ Len(cells) = endDate.day - alignedStart.day + 1
        /\ \A k \in DOMAIN cells :
              /\ cells[k].date.day = alignedStart.day + (k - 1)
              /\ cells[k].count =
                    Lookup(data, CivilFromDays(cells[k].date.day))
              /\ cells[k].x = ((k - 1) \div 7) * Stride
              /\ cells[k].y = ((k - 1) % 7) * Stride
        /\ Len(cells) > 0
        /\ cells[Len(cells)].date.day = endDate.day

\* C10: for startDate <= endDate, cellSize > 0 and cellSpacing >= 0,
\* totalWeeks is the least number of weeks holding totalDays days, no two
\* cells share an offset, and every cell drawn lies inside the canvas.
C10_CellsInsideCanvas ==
    (rendered /\ ValidRange /\ cellSize > 0 /\ cellSpacing >= 0) =>
        /\ 7 * totalWeeks >= totalDays
        /\ 7 * (totalWeeks - 1) < totalDays
        /\ \A i, j \in DOMAIN cells :
              i # j => <<cells[i].x, cells[i].y>> # <<cells[j].x, cells[j].y>>
        /\ \A i \in DOMAIN cells :
              /\ 0 <= cells[i].x
              /\ cells[i].x + 50 + cellSize <= totalWeeks * Stride + 50
              /\ 0 <= cells[i].y
              /\ cells[i].y + 20 + cellSize <= 7 * Stride + 20
              /\ shapes[i].x = cells[i].x + 50
              /\ shapes[i].y = cells[i].y + 20
              /\ shapes[i].x + shapes[i].width <= svgWidth
              /\ shapes[i].y + shapes[i].height <= svgHeight

C10_Witness ==
    /\ rendered
    /\ ValidRange
    /\ cellSize = 1
    /\ cellSpacing = 0
    /\ totalDays % 7 # 0
    /\ totalWeeks >= 2
    /\ shapes[Len(shapes)].x + shapes[Len(shapes)].width = svgWidth

====
